---- MODULE Spec2Model ----
(***************************************************************************)
(* Model of src/lambda_function.py: a REST dispatcher (lambda_handler)     *)
(* over one DynamoDB table, with the operations get_all_items, get_item,   *)
(* create_item, update_item and delete_item.                               *)
(*                                                                         *)
(* Strings are sequences of atoms.  The atoms form a prefix code (no atom  *)
(* is a prefix of another), so two Python strings built from them are      *)
(* equal exactly when their atom sequences are equal, and strip, split,    *)
(* join and startswith act on the atom sequences as they act on the        *)
(* characters.                                                             *)
(***************************************************************************)
EXTENDS Integers, Sequences, FiniteSets, TLC

\* ------------------------------------------------------------------ bounds
MaxPathLen == 4
MaxReqs == 2
MaxClock == 2
MaxItems == 2

\* ------------------------------------------------------- strings and paths
Slash == "/"
Atoms == {"/", "items", "dev", "staging", "prod", "i1", "i2"}

\* line 31: the stage names that are removed from the front of the path
Stages == {<<"dev">>, <<"staging">>, <<"prod">>}

Methods == {"GET", "POST", "PUT", "DELETE", "PATCH"}

RECURSIVE LStrip(_)
\* str.lstrip('/')
LStrip(s) ==
    IF s # <<>> /\ Head(s) = Slash THEN LStrip(Tail(s)) ELSE s

RECURSIVE RStrip(_)
\* str.rstrip('/')
RStrip(s) ==
    IF s # <<>> /\ s[Len(s)] = Slash THEN RStrip(SubSeq(s, 1, Len(s) - 1)) ELSE s

\* line 28: raw_path.strip('/')
Strip(s) == RStrip(LStrip(s))

RECURSIVE SplitAcc(_, _, _)
SplitAcc(s, cur, acc) ==
    IF s = <<>> THEN Append(acc, cur)
    ELSE IF Head(s) = Slash THEN SplitAcc(Tail(s), <<>>, Append(acc, cur))
    ELSE SplitAcc(Tail(s), Append(cur, Head(s)), acc)

\* str.split('/'): the segments between the slashes; ''.split('/') is ['']
Split(s) == SplitAcc(s, <<>>, <<>>)

RECURSIVE Join(_)
\* '/'.join(parts)
Join(parts) ==
    IF parts = <<>> THEN <<>>
    ELSE IF Len(parts) = 1 THEN parts[1]
    ELSE parts[1] \o <<Slash>> \o Join(Tail(parts))

\* line 31-32, with the stage list {'dev'}: 'staging' and 'prod' are kept
DropStageDevOnly(parts) ==
    IF Len(parts) > 0 /\ parts[1] = <<"dev">> THEN Tail(parts) ELSE parts

\* line 31-32: remove the first part if it is a stage name
DropStage(parts) ==
    IF Len(parts) > 0 /\ parts[1] \in Stages THEN Tail(parts) ELSE parts

\* line 27-34: the clean path of a raw path
CleanPath(raw) ==
    LET path_parts == DropStage(Split(Strip(raw)))
    IN  IF path_parts # <<>> THEN <<Slash>> \o Join(path_parts) ELSE <<Slash>>

\* str.startswith
StartsWith(s, p) == Len(s) >= Len(p) /\ SubSeq(s, 1, Len(p)) = p

ItemsPath == <<"/", "items">>
ItemsPrefix == <<"/", "items", "/">>

\* path.split('/')[-1]
LastPart(path) == LET ps == Split(path) IN ps[Len(ps)]

\* line 38-65: the route of a method and a clean path; NoRoute carries the
\* method and the path that the 404 message names
Route(method, path) ==
    IF method = "GET" /\ path = ItemsPath
        THEN [op |-> "List", id |-> <<>>, method |-> method, path |-> <<>>]
    ELSE IF method = "POST" /\ path = ItemsPath
        THEN [op |-> "Create", id |-> <<>>, method |-> method, path |-> <<>>]
    ELSE IF method = "GET" /\ StartsWith(path, ItemsPrefix)
        THEN [op |-> "Get", id |-> LastPart(path), method |-> method, path |-> <<>>]
    ELSE IF method = "PUT" /\ StartsWith(path, ItemsPrefix)
        THEN [op |-> "Update", id |-> LastPart(path), method |-> method, path |-> <<>>]
    ELSE IF method = "DELETE" /\ StartsWith(path, ItemsPrefix)
        THEN [op |-> "Delete", id |-> LastPart(path), method |-> method, path |-> <<>>]
    ELSE [op |-> "NoRoute", id |-> <<>>, method |-> method, path |-> path]

\* line 23-65: from the method and the raw path to the operation
Dispatch(method, raw) == Route(method, CleanPath(raw))

\* ------------------------------------------------------------ JSON values
\* A number is held in tenths (25 is 2.5); kind says what holds it:
\* "num" a JSON number, "str" a JSON string that is not a numeral,
\* "dec" a Python Decimal, "int" a Python int, "N" a DynamoDB number,
\* "absent" no value.
NoVal == [kind |-> "absent", n |-> 0]
Num(n) == [kind |-> "num", n |-> n]
NotNumeric == [kind |-> "str", n |-> 0]

\* line 113, 148: Decimal(str(v)) raises InvalidOperation unless v is numeric
DecimalRaises(v) == v.kind # "num"
ToDecimal(v) == [kind |-> "dec", n |-> v.n]

\* line 115, 152: int(v) raises ValueError unless v is numeric, and truncates
IntRaises(v) == v.kind # "num"
ToInt(v) == [kind |-> "int", n |-> (v.n \div 10) * 10]

\* what the table holds for a Python number, and what it gives back for it
ToStored(v) == IF v.kind \in {"dec", "int"} THEN [kind |-> "N", n |-> v.n] ELSE v
FromStored(v) == IF v.kind = "N" THEN [kind |-> "dec", n |-> v.n] ELSE v

\* line 12-16, 184: json.dumps with DecimalEncoder writes a Decimal as a float
JsonNumber(v) == IF v.kind \in {"dec", "int"} THEN [kind |-> "num", n |-> v.n] ELSE v

\* ------------------------------------------------------------------- items
\* An item has every attribute as a field; "-", NoVal and -1 say that the
\* attribute is not there.
NoItem ==
    [id |-> <<>>, name |-> "-", description |-> "-", price |-> NoVal,
     quantity |-> NoVal, created_at |-> -1, updated_at |-> -1]

ItemToStored(it) ==
    [it EXCEPT !.price = ToStored(it.price), !.quantity = ToStored(it.quantity)]
ItemFromStored(it) ==
    [it EXCEPT !.price = FromStored(it.price), !.quantity = FromStored(it.quantity)]
ItemToJson(it) ==
    [it EXCEPT !.price = JsonNumber(it.price), !.quantity = JsonNumber(it.quantity)]

\* ------------------------------------------------------------------ bodies
\* The event's body.  json is what the text is: "object", "list", "string",
\* "number" or "null" for JSON text of that kind, "malformed" for text that
\* is not JSON, "none" for a body that is None and "absent" for an event
\* with no body.  For an object the fields hold the values of its keys and
\* extra the other keys it has; for a list or a string they say which of
\* the key names it contains.
IgnoredKeys == {"id", "created_at", "color"}

Body(json, name, description, price, quantity, extra) ==
    [json |-> json, name |-> name, description |-> description, price |-> price,
     quantity |-> quantity, extra |-> extra]

EmptyObject == Body("object", "-", "-", NoVal, NoVal, {})

ObjectBodies ==
    { EmptyObject,
      Body("object", "n1", "d1", NoVal, NoVal, {}),
      Body("object", "n1", "d1", Num(15), Num(25), {}),
      Body("object", "n1", "d1", NotNumeric, NoVal, {}),
      Body("object", "n1", "d1", NoVal, NotNumeric, {}),
      Body("object", "-", "d1", NoVal, NoVal, {}),
      Body("object", "n2", "-", NoVal, NoVal, {}),
      Body("object", "n2", "-", Num(35), NoVal, IgnoredKeys),
      Body("object", "-", "-", Num(35), NoVal, {}),
      Body("object", "-", "-", NoVal, Num(47), {}),
      Body("object", "-", "-", NoVal, NoVal, IgnoredKeys) }

OtherBodies ==
    { Body("absent", "-", "-", NoVal, NoVal, {}),
      Body("none", "-", "-", NoVal, NoVal, {}),
      Body("malformed", "-", "-", NoVal, NoVal, {}),
      Body("number", "-", "-", NoVal, NoVal, {}),
      Body("null", "-", "-", NoVal, NoVal, {}),
      Body("list", "-", "-", NoVal, NoVal, {}),
      Body("list", "n1", "d1", NoVal, NoVal, {}),
      Body("string", "n1", "-", NoVal, NoVal, {}),
      Body("string", "-", "-", Num(15), NoVal, {}) }

\* line 45, 56: json.loads(event.get('body', '{}')) raises on None (TypeError)
\* and on text that is not JSON (JSONDecodeError)
LoadsRaises(ev) == ev.json \in {"none", "malformed"}
\* ... and reads '{}' when the event has no body
Loads(ev) == IF ev.json = "absent" THEN EmptyObject ELSE ev

\* 'k' in body raises TypeError on a number and on None
InRaises(body) == body.json \in {"number", "null"}
HasName(body) == body.name # "-"
HasDescription(body) == body.description # "-"
HasPrice(body) == body.price.kind # "absent"
HasQuantity(body) == body.quantity.kind # "absent"
\* body['k'] raises TypeError on a list and on a string
SubscriptRaises(body) == body.json # "object"

EventBodies == ObjectBodies \cup OtherBodies

\* --------------------------------------------------------------- responses
NoMsg == [text |-> "", exc |-> "", method |-> "", path |-> <<>>]
Msg(text, exc) == [text |-> text, exc |-> exc, method |-> "", path |-> <<>>]
NoOut == [kind |-> "none", item |-> NoItem, items |-> {}, count |-> 0, id |-> <<>>]
ItemOut(it) == [NoOut EXCEPT !.kind = "item", !.item = it]
NoResp ==
    [raised |-> FALSE, statusCode |-> 0, contentType |-> "", error |-> NoMsg, body |-> NoOut]

\* line 180-188: json.dumps writes every item's numbers as JSON numbers
success_response(status_code, body) ==
    [raised |-> FALSE, statusCode |-> status_code, contentType |-> "application/json",
     error |-> NoMsg,
     body |-> [body EXCEPT !.item = ItemToJson(body.item),
                           !.items = {ItemToJson(it) : it \in body.items}]]

\* line 190-198
error_response(status_code, message) ==
    [raised |-> FALSE, statusCode |-> status_code, contentType |-> "application/json",
     error |-> message, body |-> NoOut]

\* an exception that leaves lambda_handler: there is no response
Raises(text, exc) == [NoResp EXCEPT !.raised = TRUE, !.error = Msg(text, exc)]

\* line 67-71, 82-83, 92-93, 119-120, 164-165, 177-178: except Exception
Except(text, exc) == error_response(500, Msg(text, exc))

\* ------------------------------------------------------------------- table
\* The table is a function from the keys it holds to their items.
\* line 88, 126, 171: table.get_item
TableHas(st, id) == id \in DOMAIN st
TableGet(st, id) == ItemFromStored(st[id])

\* line 76: table.scan
TableScan(st) == {ItemFromStored(st[k]) : k \in DOMAIN st}

\* line 117: table.put_item writes the item whether or not the key is there
TablePut(st, item) ==
    [k \in DOMAIN st \cup {item.id} |-> IF k = item.id THEN ItemToStored(item) ELSE st[k]]

\* line 175: table.delete_item
TableDelete(st, id) == [k \in DOMAIN st \ {id} |-> st[k]]

\* the SET clauses of an update expression, over an item
ApplySet(old, set) ==
    [id |-> old.id,
     name |-> IF set.name # "-" THEN set.name ELSE old.name,
     description |-> IF set.description # "-" THEN set.description ELSE old.description,
     price |-> IF set.price.kind # "absent" THEN ToStored(set.price) ELSE old.price,
     quantity |-> IF set.quantity.kind # "absent" THEN ToStored(set.quantity) ELSE old.quantity,
     created_at |-> old.created_at,
     updated_at |-> set.updated_at]

\* line 155-161: table.update_item with no ConditionExpression: UpdateItem
\* edits the item of the key, or adds a new item when the key is not there
TableUpdate(st, id, set) ==
    LET old == IF id \in DOMAIN st THEN st[id] ELSE [NoItem EXCEPT !.id = id]
    IN  [k \in DOMAIN st \cup {id} |-> IF k = id THEN ApplySet(old, set) ELSE st[k]]

\* -------------------------------------------------------------- operations
\* What one run of an operation's code does: the response it returns, the
\* table it leaves, the store calls it issued, and whether it drew a uuid and
\* read the clock.
Outcome(response, st, issued, uuid, clockRead) ==
    [resp |-> response, store |-> st, calls |-> issued, uuid |-> uuid, clockRead |-> clockRead]

Call(name, ok) == [call |-> name, ok |-> ok]

\* line 73-83
get_all_items(st, ok) ==
    IF ~ok
    THEN Outcome(Except("Failed to retrieve items", "StoreError"), st,
                 <<Call("scan", FALSE)>>, FALSE, FALSE)
    ELSE Outcome(success_response(200, [NoOut EXCEPT !.kind = "list",
                                                    !.items = TableScan(st),
                                                    !.count = Cardinality(TableScan(st))]),
                 st, <<Call("scan", TRUE)>>, FALSE, FALSE)

\* line 85-93
get_item(st, item_id, ok) ==
    IF ~ok
    THEN Outcome(Except("Failed to retrieve item", "StoreError"), st,
                 <<Call("get_item", FALSE)>>, FALSE, FALSE)
    ELSE IF ~TableHas(st, item_id)
    THEN Outcome(error_response(404, Msg("Item not found", "")), st,
                 <<Call("get_item", TRUE)>>, FALSE, FALSE)
    ELSE Outcome(success_response(200, ItemOut(TableGet(st, item_id))), st,
                 <<Call("get_item", TRUE)>>, FALSE, FALSE)

\* line 103-115: the item built from the body
NewItem(body, item_id, t1, t2) ==
    [id |-> item_id, name |-> body.name, description |-> body.description,
     price |-> IF HasPrice(body) THEN ToDecimal(body.price) ELSE NoVal,
     quantity |-> IF HasQuantity(body) THEN ToInt(body.quantity) ELSE NoVal,
     created_at |-> t1, updated_at |-> t2]

\* line 99, checking name only
MissingRequiredNameOnly(body) == ~HasName(body)

\* line 99: 'name' not in body or 'description' not in body
MissingRequired(body) == ~HasName(body) \/ ~HasDescription(body)

\* line 95-120; t1 and t2 are the two readings of the clock (line 107, 108)
create_item(st, body, item_id, t1, t2, ok) ==
    IF InRaises(body)
    THEN Outcome(Except("Failed to create item", "TypeError"), st, <<>>, FALSE, FALSE)
    ELSE IF MissingRequired(body)
    THEN Outcome(error_response(400, Msg("Missing required fields: name, description", "")),
                 st, <<>>, FALSE, FALSE)
    ELSE IF SubscriptRaises(body)
    THEN Outcome(Except("Failed to create item", "TypeError"), st, <<>>, TRUE, FALSE)
    ELSE IF HasPrice(body) /\ DecimalRaises(body.price)
    THEN Outcome(Except("Failed to create item", "InvalidOperation"), st, <<>>, TRUE, TRUE)
    ELSE IF HasQuantity(body) /\ IntRaises(body.quantity)
    THEN Outcome(Except("Failed to create item", "ValueError"), st, <<>>, TRUE, TRUE)
    ELSE IF ~ok
    THEN Outcome(Except("Failed to create item", "StoreError"), st,
                 <<Call("put_item", FALSE)>>, TRUE, TRUE)
    ELSE Outcome(success_response(201, ItemOut(NewItem(body, item_id, t1, t2))),
                 TablePut(st, NewItem(body, item_id, t1, t2)),
                 <<Call("put_item", TRUE)>>, TRUE, TRUE)

\* line 130-152: the values of the update expression
SetOf(body, t) ==
    [updated_at |-> t,
     name |-> body.name, description |-> body.description,
     price |-> IF HasPrice(body) THEN ToDecimal(body.price) ELSE NoVal,
     quantity |-> IF HasQuantity(body) THEN ToInt(body.quantity) ELSE NoVal]

\* line 159: ExpressionAttributeNames is None unless the body has name or
\* description, and the client refuses None for it
NamesIsNone(body) == ~HasName(body) /\ ~HasDescription(body)

\* line 130-165, after the item was found; t is the reading of the clock
update_write(st, item_id, body, t, ok) ==
    IF InRaises(body)
    THEN Outcome(Except("Failed to update item", "TypeError"), st, <<>>, FALSE, TRUE)
    ELSE IF SubscriptRaises(body)
            /\ (HasName(body) \/ HasDescription(body) \/ HasPrice(body) \/ HasQuantity(body))
    THEN Outcome(Except("Failed to update item", "TypeError"), st, <<>>, FALSE, TRUE)
    ELSE IF HasPrice(body) /\ DecimalRaises(body.price)
    THEN Outcome(Except("Failed to update item", "InvalidOperation"), st, <<>>, FALSE, TRUE)
    ELSE IF HasQuantity(body) /\ IntRaises(body.quantity)
    THEN Outcome(Except("Failed to update item", "ValueError"), st, <<>>, FALSE, TRUE)
    ELSE IF NamesIsNone(body)
    THEN Outcome(Except("Failed to update item", "InvalidExpressionAttributeNames"), st,
                 <<Call("update_item", FALSE)>>, FALSE, TRUE)
    ELSE IF ~ok
    THEN Outcome(Except("Failed to update item", "StoreError"), st,
                 <<Call("update_item", FALSE)>>, FALSE, TRUE)
    ELSE Outcome(success_response(200,
                     ItemOut(TableGet(TableUpdate(st, item_id, SetOf(body, t)), item_id))),
                 TableUpdate(st, item_id, SetOf(body, t)),
                 <<Call("update_item", TRUE)>>, FALSE, TRUE)

\* line 175-178, calling delete_item again when it fails
delete_write_retrying(st, item_id, ok) ==
    IF ~ok
    THEN Outcome(success_response(200, [NoOut EXCEPT !.kind = "message", !.id = item_id]),
                 TableDelete(st, item_id),
                 <<Call("delete_item", FALSE), Call("delete_item", TRUE)>>, FALSE, FALSE)
    ELSE Outcome(success_response(200, [NoOut EXCEPT !.kind = "message", !.id = item_id]),
                 TableDelete(st, item_id), <<Call("delete_item", TRUE)>>, FALSE, FALSE)

\* line 175-178, after the item was found
delete_write(st, item_id, ok) ==
    IF ~ok
    THEN Outcome(Except("Failed to delete item", "StoreError"), st,
                 <<Call("delete_item", FALSE)>>, FALSE, FALSE)
    ELSE Outcome(success_response(200, [NoOut EXCEPT !.kind = "message", !.id = item_id]),
                 TableDelete(st, item_id), <<Call("delete_item", TRUE)>>, FALSE, FALSE)

\* ------------------------------------------------------------------- state
VARIABLES
    store,      \* the table: a function from the keys it holds to their items
    clock,      \* the latest time datetime.utcnow() has returned
    generated,  \* the ids uuid.uuid4() has returned
    pc,         \* where each invocation of lambda_handler is
    req,        \* each invocation's operation and item id, and while it runs the body
    resp,       \* the response returned last
    ev,         \* the request it answers: operation, item id, body
    last,       \* the invocation that returned it (0: none has returned)
    status,     \* the status code each invocation returned (0: it has not)
    calls,      \* the store calls each invocation issued, in their order
    rpc, rMethod, rStage, rPath, rPlain, rStaged   \* routing of one request, alone

vars == <<store, clock, generated, pc, req, resp, ev, last, status, calls,
          rpc, rMethod, rStage, rPath, rPlain, rStaged>>
routeVars == <<rpc, rMethod, rStage, rPath, rPlain, rStaged>>
tableVars == <<store, clock, generated, pc, req, resp, ev, last, status, calls>>
respVars == <<resp, ev, last, status>>

Reqs == 1..MaxReqs

\* uuid.uuid4() returns an id it has not returned before
UuidNames == <<"i1", "i2", "i3", "i4">>
UuidSpace == {<<UuidNames[k]>> : k \in 1..MaxItems}

\* datetime.utcnow(): the clock does not run backwards
Ticks(c) == {t \in {c, c + 1} : t <= MaxClock}

\* the raw paths of the requests
SamplePaths ==
    { <<"/", "items">>, <<"/", "dev", "items">>, <<"/", "items", "/">>,
      <<"/", "items", "/", "i1">>, <<"/", "prod", "items", "/", "i1">>,
      <<"/", "items", "/", "i2">>, <<"/", "staging", "items", "/", "i2", "/">>,
      <<"/">>, <<"/", "i1">>, <<"/", "dev", "dev", "items">> }

NoBody == Body("unread", "-", "-", NoVal, NoVal, {})
NoReq == [op |-> "", id |-> <<>>, body |-> NoBody]
NoDispatch == [op |-> "", id |-> <<>>, method |-> "", path |-> <<>>]

\* The table outlives the invocations: an invocation may find it empty, or
\* holding an item that an earlier create_item has put there.
FirstItem == NewItem(Body("object", "n1", "d1", Num(15), Num(25), {}), <<"i1">>, 0, 0)

TableInit ==
    /\ store \in {<<>>, TablePut(<<>>, FirstItem)}
    /\ clock = 0
    /\ generated = DOMAIN store
    /\ pc = [r \in Reqs |-> "idle"]
    /\ req = [r \in Reqs |-> NoReq]
    /\ resp = NoResp /\ ev = NoReq /\ last = 0
    /\ status = [r \in Reqs |-> 0]
    /\ calls = [r \in Reqs |-> <<>>]

Init ==
    /\ TableInit
    /\ rpc = "off" /\ rMethod = "" /\ rStage = <<>> /\ rPath = <<>>
    /\ rPlain = NoDispatch /\ rStaged = NoDispatch

\* the invocations are numbered in the order in which they start
CanStart(r) == pc[r] = "idle" /\ (IF r = 1 THEN TRUE ELSE pc[r - 1] # "idle")

\* line 67-71: the handler's own except clause
HandlerReraises(exc) == Raises("Internal server error", exc)
HandlerExcept(exc) == Except("Internal server error", exc)

\* invocation r returns `response` to the request `event`, having issued
\* the store calls `issued` since its last step
Return(r, event, response, issued) ==
    /\ resp' = response
    /\ ev' = event
    /\ last' = r
    /\ status' = [status EXCEPT ![r] = response.statusCode]
    /\ pc' = [pc EXCEPT ![r] = "done"]
    /\ req' = [req EXCEPT ![r] = [event EXCEPT !.body = NoBody]]
    /\ calls' = [calls EXCEPT ![r] = calls[r] \o issued]

\* invocation r goes on to `at` with the body, having issued `issued`
GoOn(r, event, at, issued) ==
    /\ pc' = [pc EXCEPT ![r] = at]
    /\ req' = [req EXCEPT ![r] = event]
    /\ calls' = [calls EXCEPT ![r] = calls[r] \o issued]
    /\ UNCHANGED respVars

Event(d, body) == [op |-> d.op, id |-> d.id, body |-> body]

\* line 23-36, 64-65: no route matches
ReceiveNoRoute(r) ==
    /\ CanStart(r)
    /\ \E m \in Methods, p \in SamplePaths :
        LET d == Dispatch(m, p) IN
        /\ d.op = "NoRoute"
        /\ Return(r, Event(d, NoBody),
                  error_response(404, [text |-> "Endpoint not found", exc |-> "",
                                       method |-> d.method, path |-> d.path]),
                  <<>>)
    /\ UNCHANGED <<store, clock, generated, routeVars>>

\* line 23-36, 45, 56, 67-71: the body of a POST or a PUT does not load
ReceiveBadBody(r) ==
    /\ CanStart(r)
    /\ \E m \in Methods, p \in SamplePaths :
        LET d == Dispatch(m, p) IN
        /\ d.op \in {"Create", "Update"}
        /\ \E body \in EventBodies :
            /\ LoadsRaises(body)
            /\ Return(r, Event(d, body),
                      HandlerExcept(IF body.json = "none" THEN "TypeError"
                                                          ELSE "JSONDecodeError"),
                      <<>>)
    /\ UNCHANGED <<store, clock, generated, routeVars>>

\* line 23-41: GET /items
GetAllItems(r) ==
    /\ CanStart(r)
    /\ \E m \in Methods, p \in SamplePaths :
        LET d == Dispatch(m, p) IN
        /\ d.op = "List"
        /\ \E ok \in BOOLEAN :
            LET o == get_all_items(store, ok) IN
            Return(r, Event(d, NoBody), o.resp, o.calls) /\ store' = o.store
    /\ UNCHANGED <<clock, generated, routeVars>>

\* line 23-36, 49-51: GET /items/{id}
GetItem(r) ==
    /\ CanStart(r)
    /\ \E m \in Methods, p \in SamplePaths :
        LET d == Dispatch(m, p) IN
        /\ d.op = "Get"
        /\ \E ok \in BOOLEAN :
            LET o == get_item(store, d.id, ok) IN
            Return(r, Event(d, NoBody), o.resp, o.calls) /\ store' = o.store
    /\ UNCHANGED <<clock, generated, routeVars>>

\* line 23-36, 44-46: POST /items
CreateItem(r) ==
    /\ CanStart(r)
    /\ \E m \in Methods, p \in SamplePaths :
        LET d == Dispatch(m, p) IN
        /\ d.op = "Create"
        /\ \E body \in EventBodies, item_id \in UuidSpace \ generated, ok \in BOOLEAN :
           \E t1 \in Ticks(clock) : \E t2 \in Ticks(t1) :
            LET o == create_item(store, Loads(body), item_id, t1, t2, ok) IN
            /\ ~LoadsRaises(body)
            /\ Return(r, Event(d, Loads(body)), o.resp, o.calls)
            /\ store' = o.store
            /\ generated' = IF o.uuid THEN generated \cup {item_id} ELSE generated
            /\ clock' = IF o.clockRead THEN t2 ELSE clock
    /\ UNCHANGED routeVars

\* line 23-36, 54-57, 124-128: PUT /items/{id}: update_item looks the item up
UpdateCheck(r) ==
    /\ CanStart(r)
    /\ \E m \in Methods, p \in SamplePaths :
        LET d == Dispatch(m, p) IN
        /\ d.op = "Update"
        /\ \E body \in EventBodies, ok \in BOOLEAN :
            LET o == get_item(store, d.id, ok) IN
            /\ ~LoadsRaises(body)
            /\ IF ok /\ TableHas(store, d.id)
               THEN GoOn(r, Event(d, Loads(body)), "update_write", o.calls)
               ELSE Return(r, Event(d, Loads(body)),
                           IF ok THEN o.resp
                                 ELSE Except("Failed to update item", "StoreError"),
                           o.calls)
    /\ UNCHANGED <<store, clock, generated, routeVars>>

\* line 130-165: update_item writes
UpdateWrite(r) ==
    /\ pc[r] = "update_write"
    /\ \E ok \in BOOLEAN, t \in Ticks(clock) :
        LET o == update_write(store, req[r].id, req[r].body, t, ok) IN
        /\ Return(r, req[r], o.resp, o.calls)
        /\ store' = o.store
        /\ clock' = t
    /\ UNCHANGED <<generated, routeVars>>

\* line 23-36, 60-62, 169-173: DELETE /items/{id}: delete_item looks the item up
DeleteCheck(r) ==
    /\ CanStart(r)
    /\ \E m \in Methods, p \in SamplePaths :
        LET d == Dispatch(m, p) IN
        /\ d.op = "Delete"
        /\ \E ok \in BOOLEAN :
            LET o == get_item(store, d.id, ok) IN
            IF ok /\ TableHas(store, d.id)
            THEN GoOn(r, Event(d, NoBody), "delete_write", o.calls)
            ELSE Return(r, Event(d, NoBody),
                        IF ok THEN o.resp
                              ELSE Except("Failed to delete item", "StoreError"),
                        o.calls)
    /\ UNCHANGED <<store, clock, generated, routeVars>>

\* line 175-178: delete_item deletes
DeleteWrite(r) ==
    /\ pc[r] = "delete_write"
    /\ \E ok \in BOOLEAN :
        LET o == delete_write(store, req[r].id, ok) IN
        Return(r, req[r], o.resp, o.calls) /\ store' = o.store
    /\ UNCHANGED <<clock, generated, routeVars>>

Next ==
    \E r \in Reqs :
        \/ ReceiveNoRoute(r) \/ ReceiveBadBody(r)
        \/ GetAllItems(r) \/ GetItem(r) \/ CreateItem(r)
        \/ UpdateCheck(r) \/ UpdateWrite(r) \/ DeleteCheck(r) \/ DeleteWrite(r)

Spec == Init /\ [][Next]_vars

\* ----------------------------------------------------- routing on its own
\* One request's method and raw path p, routed as it is and with a stage in
\* front of it ("/" + stage + p).
Paths == UNION {[1..n -> Atoms] : n \in 0..MaxPathLen}

Staged(stage, p) == <<Slash>> \o stage \o p

InitRoute ==
    /\ store = <<>> /\ clock = 0 /\ generated = {}
    /\ pc = [r \in Reqs |-> "idle"]
    /\ req = [r \in Reqs |-> NoReq]
    /\ resp = NoResp /\ ev = NoReq /\ last = 0
    /\ status = [r \in Reqs |-> 0]
    /\ calls = [r \in Reqs |-> <<>>]
    /\ rpc = "input"
    /\ rMethod \in Methods
    /\ rStage \in Stages
    /\ rPath \in Paths
    /\ rPlain = NoDispatch /\ rStaged = NoDispatch

\* line 23-65, on the raw path and on the staged raw path
RouteRequest ==
    /\ rpc = "input"
    /\ rPlain' = Dispatch(rMethod, rPath)
    /\ rStaged' = Dispatch(rMethod, Staged(rStage, rPath))
    /\ rpc' = "done"
    /\ UNCHANGED <<rMethod, rStage, rPath, tableVars>>

NextRoute == RouteRequest

SpecRoute == InitRoute /\ [][NextRoute]_vars

\* ------------------------------------------------------------------ claims
\* The raw paths the amended C7 is about: nothing but slashes, or one slash
\* and then a first segment that is not a stage name.
OnlySlashes(p) == \A i \in 1..Len(p) : p[i] = Slash
OneSlashThenNoStage(p) ==
    /\ Len(p) >= 2 /\ p[1] = Slash /\ p[2] # Slash
    /\ Split(Strip(p))[1] \notin Stages

\* C7 as stated: for every method, stage and raw path p that begins with a
\* slash, the request for "/<stage>" + p is dispatched as the request for p.
C7_Original ==
    (rpc = "done" /\ rPath # <<>> /\ rPath[1] = Slash) => rStaged = rPlain

\* C7 amended: for every method, every stage and every raw path p that is
\* made of slashes only or begins with exactly one slash followed by a
\* segment that is not a stage name, the request for "/<stage>" + p is
\* dispatched to the same operation with the same item id (or to the same
\* no-route 404 naming the same method and path) as the request for p.
C7_StageTransparent ==
    (rpc = "done" /\ (OnlySlashes(rPath) \/ OneSlashThenNoStage(rPath))) => rStaged = rPlain

\* C7 witness: "/prod" + "/items/i1" and "/items/i1" both reach Get of i1
C7_Witness ==
    /\ rpc = "done" /\ rMethod = "GET" /\ rStage = <<"prod">>
    /\ rPath = <<"/", "items", "/", "i1">>
    /\ rPlain.op = "Get" /\ rPlain.id = <<"i1">> /\ rStaged = rPlain

\* a step in which invocation r runs the code at `at` and returns
Returns(r, at) == pc[r] = at /\ pc'[r] = "done"
\* a step in which invocation r takes a request for `op` and returns
Answers(r, op) == pc[r] = "idle" /\ pc'[r] = "done" /\ ev'.op = op

\* the body is a JSON object whose price and quantity, if there, are numbers
WellTyped(body) ==
    /\ body.json = "object"
    /\ HasPrice(body) => ~DecimalRaises(body.price)
    /\ HasQuantity(body) => ~IntRaises(body.quantity)

\* C1 as stated: in every reachable state, under any interleaving of the
\* requests, every item in the store has a name and a description.
C1_ItemsNamedAndDescribed ==
    \A k \in DOMAIN store : store[k].name # "-" /\ store[k].description # "-"

\* C2 as stated: the write of an Update never adds a key to the store: the
\* set of ids in the store is the same before and after it.
C2_UpdateAddsNoKey ==
    [][\A r \in Reqs : Returns(r, "update_write") => DOMAIN store' = DOMAIN store]_vars

\* C3 as stated: an Update of an existing item whose body has only price
\* answers (unless the store fails) 200 with the whole item after the
\* update: name, description, quantity, created_at and id as stored, price
\* the new value, updated_at not earlier than before.
C3_PriceOnlyUpdate ==
    [][\A r \in Reqs :
        LET body == req[r].body
            old == ItemToJson(TableGet(store, req[r].id))
            new == resp'.body.item
        IN  ( /\ Returns(r, "update_write")
              /\ TableHas(store, req[r].id)
              /\ body.json = "object" /\ ~HasName(body) /\ ~HasDescription(body)
              /\ ~HasQuantity(body) /\ HasPrice(body) /\ ~DecimalRaises(body.price)
              /\ resp'.error.exc # "StoreError" )
            => /\ resp'.statusCode = 200
               /\ new.id = old.id /\ new.name = old.name
               /\ new.description = old.description /\ new.quantity = old.quantity
               /\ new.created_at = old.created_at
               /\ new.price = body.price
               /\ new.updated_at >= old.updated_at
      ]_vars

\* C4 as stated: a Create whose body has name and description and whose
\* store write succeeds answers 201 with an item whose id is not empty and
\* was not generated before, and the stored item's created_at equals its
\* updated_at, whenever the clock is read.
C4_CreatedAtIsUpdatedAt ==
    [][\A r \in Reqs :
        ( /\ Answers(r, "Create")
          /\ HasName(ev'.body) /\ HasDescription(ev'.body)
          /\ calls'[r] = <<Call("put_item", TRUE)>> )
        => LET id == resp'.body.item.id IN
           /\ resp'.statusCode = 201
           /\ id # <<>> /\ id \notin generated
           /\ TableHas(store', id)
           /\ store'[id].created_at = store'[id].updated_at
           /\ resp'.body.item.created_at = resp'.body.item.updated_at
      ]_vars

\* C5: a request that is rejected before it mutates writes nothing.  A
\* Create whose body is an object without name or without description
\* answers 400, issues no store call and leaves the store as it was; an
\* Update or a Delete whose lookup finds no item answers 404 "Item not
\* found", has issued the lookup only and leaves the store as it was; and
\* an invocation that has returned issues no further call.
C5_RejectedWritesNothing ==
    [][\A r \in Reqs :
        /\ ( /\ Answers(r, "Create")
             /\ ev'.body.json = "object"
             /\ ~HasName(ev'.body) \/ ~HasDescription(ev'.body) )
           => /\ resp'.statusCode = 400
              /\ calls'[r] = <<>>
              /\ store' = store
        /\ ( /\ pc[r] = "idle" /\ pc'[r] # "idle"
             /\ req'[r].op \in {"Update", "Delete"}
             /\ ~TableHas(store, req'[r].id)
             /\ calls'[r] = <<Call("get_item", TRUE)>> )
           => /\ pc'[r] = "done"
              /\ resp'.statusCode = 404
              /\ resp'.error.text = "Item not found"
              /\ store' = store
        /\ pc[r] = "done" => (calls'[r] = calls[r] /\ pc'[r] = "done")
      ]_vars

\* C5 witness: a Create was answered 400 and an Update 404 after its lookup
C5_Witness ==
    /\ \E r \in Reqs : /\ pc[r] = "done" /\ req[r].op = "Create"
                       /\ status[r] = 400 /\ calls[r] = <<>>
    /\ \E r \in Reqs : /\ pc[r] = "done" /\ req[r].op = "Update"
                       /\ status[r] = 404 /\ last = r
                       /\ resp.error.text = "Item not found"
                       /\ calls[r] = <<Call("get_item", TRUE)>>

\* C6 as stated: per item at most one Delete request is answered with 200
\* (no Create lies between the Deletes: an id is generated once).
C6_OneDeleteSucceeds ==
    \A r1, r2 \in Reqs :
        ( /\ pc[r1] = "done" /\ req[r1].op = "Delete" /\ status[r1] = 200
          /\ pc[r2] = "done" /\ req[r2].op = "Delete" /\ status[r2] = 200
          /\ req[r1].id = req[r2].id )
        => r1 = r2

\* C8: no failure leaves the handler.  Every response is an envelope whose
\* status is 200, 201, 400, 404 or 500 and whose Content-Type is
\* application/json, never an exception; a failure (an exception, a failed
\* store call) is answered with 500 and the failure's message, and only a
\* failure is; every invocation that has ended has returned one of these
\* statuses, and one that has not ended has returned nothing.
C8_NoFailureEscapes ==
    /\ ~resp.raised
    /\ last = 0 => resp = NoResp
    /\ last # 0 =>
        /\ pc[last] = "done" /\ status[last] = resp.statusCode
        /\ resp.contentType = "application/json"
        /\ resp.error.exc # "" <=> resp.statusCode = 500
        /\ (\E i \in 1..Len(calls[last]) : ~calls[last][i].ok) => resp.statusCode = 500
    /\ \A r \in Reqs :
        IF pc[r] = "done" THEN status[r] \in {200, 201, 400, 404, 500} ELSE status[r] = 0

\* C8 witness: a PUT whose body is not JSON was answered 500, after a
\* request that was answered 500 for a failed store call
C8_Witness ==
    /\ last # 0 /\ req[last].op = "Update"
    /\ resp.statusCode = 500 /\ resp.error.exc = "JSONDecodeError"
    /\ \E r \in Reqs : /\ r # last /\ status[r] = 500
                       /\ calls[r] # <<>> /\ ~calls[r][Len(calls[r])].ok

\* C9 as stated: an Update of an existing item, whatever object its body is
\* (ids, timestamps and unknown fields included), is no error (unless the
\* store fails) and leaves the item's id and created_at as they were.
C9_UpdateKeepsIdAndCreatedAt ==
    [][\A r \in Reqs :
        ( /\ Returns(r, "update_write")
          /\ TableHas(store, req[r].id)
          /\ WellTyped(req[r].body)
          /\ resp'.error.exc # "StoreError" )
        => /\ resp'.statusCode = 200
           /\ TableHas(store', req[r].id)
           /\ store'[req[r].id].id = store[req[r].id].id
           /\ store'[req[r].id].created_at = store[req[r].id].created_at
      ]_vars

\* the store calls of an operation, in their order
CallsOf(op) ==
    CASE op = "List" -> <<"scan">>
      [] op = "Get" -> <<"get_item">>
      [] op = "Create" -> <<"put_item">>
      [] op = "Update" -> <<"get_item", "update_item">>
      [] op = "Delete" -> <<"get_item", "delete_item">>
      [] OTHER -> <<>>

\* C10: no retry and no continuation after a store failure.  The calls an
\* invocation has issued are a prefix of its operation's calls (lookup then
\* mutation for Update and Delete, one call for List, Get and Create, each
\* at most once); only the last of them may have failed, and then the
\* invocation has ended with status 500.
C10_NoRetryNoContinuation ==
    \A r \in Reqs :
        LET cs == calls[r] IN
        /\ Len(cs) <= Len(CallsOf(req[r].op))
        /\ \A i \in 1..Len(cs) : cs[i].call = CallsOf(req[r].op)[i]
        /\ \A i \in 1..Len(cs) :
              ~cs[i].ok => (i = Len(cs) /\ pc[r] = "done" /\ status[r] = 500)

\* C10 witness: an Update whose lookup succeeded and whose write failed in
\* the store, answered with 500
C10_Witness ==
    \E r \in Reqs :
        /\ pc[r] = "done" /\ req[r].op = "Update" /\ last = r
        /\ calls[r] = <<Call("get_item", TRUE), Call("update_item", FALSE)>>
        /\ status[r] = 500 /\ resp.error.exc = "StoreError"

====
